---- MODULE Spec2Model ----
(***************************************************************************)
(* Model of Download (src/io.go): one producer goroutine, DownloadThreads  *)
(* worker goroutines, the unbuffered work channel c, the unbuffered        *)
(* completion channel done, the caller's result channel complete, the      *)
(* filesystem the workers write to and the log the helpers write to.       *)
(*                                                                         *)
(* A DownloadJob of the model carries the fields of the struct that the    *)
(* code reads or writes (Label, Path, Checksum, ChecksumType, Index,       *)
(* Error).  URL is represented by what a GET on it returns (net, Body) and *)
(* the destination by what the filesystem answers for it (disk).  Size is  *)
(* read by the debug line only and is left out.                            *)
(*                                                                         *)
(* The worker goroutines run the same closure and share no variable but    *)
(* the channels, so the pool is the bag of their local states.  A step     *)
(* that reads or writes only a goroutine's own variables is taken together *)
(* with the step before it: the status check with http.Get, the loop exit  *)
(* of the start loop with the last go statement.                           *)
(*                                                                         *)
(* DownloadThreads and DebugMode are globals set outside this file.  Spec  *)
(* takes either value of DebugMode and a pool of at least one worker;      *)
(* AnyThreadsSpec takes a pool of any size, none included.  FairSpec is    *)
(* Spec under a scheduler that does not stop, and HangSpec has in addition *)
(* a job whose GET gets no answer.                                         *)
(***************************************************************************)
EXTENDS Integers, Sequences, FiniteSets, Bags

\* ---------------------------------------------------------------- bounds
MaxJobs == 2
MaxThreads == 2

\* ---------------------------------------------------------------- values
NoError == "nil"
ErrChecksumMismatch == "ErrChecksumMismatch"

\* File contents: a create leaves the empty file, a complete copy leaves the
\* body, a copy that fails midway leaves a proper prefix of the body.
Absent == -1
Empty == 0
Old == 9
Partial(body) == body + 10

\* The digest the verifier computes of a file content (injective, and never
\* the content itself).
Digest(content) == 100 + content

\* The job descriptors batches are drawn from: one per pipeline outcome, and
\* a second that succeeds, whose Index and Error the caller has pre-set and
\* whose destination is also that of the job with the wrong checksum.
Job(label, net, disk, body, path, sum, type, index, error) ==
    [Label |-> label, net |-> net, disk |-> disk, Body |-> body, Path |-> path,
     Checksum |-> sum, ChecksumType |-> type, Index |-> index, Error |-> error]

JobKinds ==
    << Job("good1", "200", "ok", 1, "p1", Digest(1), "sha256", 0, NoError),
       Job("good2", "200", "ok", 2, "p2", Digest(2), "sha256", 7, "stale"),
       Job("mismatch", "200", "ok", 1, "p2", Digest(2), "sha256", 0, NoError),
       Job("notfound", "404", "ok", 1, "p2", Digest(1), "sha256", 0, NoError),
       Job("refused", "fail", "ok", 1, "p2", Digest(1), "sha256", 0, NoError),
       Job("nocreate", "200", "createfail", 1, "p3", Digest(1), "sha256", 0, NoError),
       Job("short", "200", "copyfail", 1, "p3", Digest(1), "sha256", 0, NoError),
       Job("badalgo", "200", "ok", 1, "p3", Digest(1), "bogus", 0, NoError) >>

Paths == { JobKinds[k].Path : k \in DOMAIN JobKinds }

\* The files present before the call: one destination exists already.
InitialFiles == [p \in Paths |-> IF p = "p2" THEN Old ELSE Absent]

\* The batches: every choice of at most MaxJobs different descriptors, listed
\* in the order of JobKinds.
Choices(n) ==
    { q \in [1..n -> DOMAIN JobKinds] : \A i \in 1..(n - 1) : q[i] < q[i + 1] }

Batches == UNION { { [i \in 1..n |-> JobKinds[q[i]]] : q \in Choices(n) } : n \in 0..MaxJobs }

\* The same with a job whose GET gets no answer.
HangKinds ==
    << Job("hang", "hang", "ok", 1, "p3", Digest(1), "sha256", 0, NoError),
       JobKinds[1], JobKinds[2], JobKinds[4], JobKinds[7] >>

HangBatches ==
    UNION { { [i \in 1..n |-> HangKinds[q[i]]] :
                q \in { c \in Choices(n) : \A i \in 1..n : c[i] \in DOMAIN HangKinds } } :
            n \in 0..MaxJobs }

VARIABLES
    jobs,            \* the jobs argument of Download
    complete,        \* TRUE when the complete argument is a channel, FALSE when nil
    DebugMode,       \* the global debug flag read by Dprintf
    DownloadThreads, \* the global worker count
    pc,              \* where Download is: "call", "spawn", "wait", "returned"
    ret,             \* what Download returned: "none" until it returns
    started,         \* workers started so far (loop variable of line 162)
    waited,          \* completion signals received (loop variable of line 224)
    ppc,             \* the producer: "idle", "send", "close", "exited"
    pi,              \* the producer's range index, 1-based: next element to send
    cClosed,         \* the work channel c has been closed
    pool,            \* the started workers: the bag of their local states
    fs,              \* file content by path
    delivered,       \* what the caller received on complete, in order
    closes,          \* who closed complete, one entry per close
    log,             \* the bag of lines written by Dprintf and Errorf
    trace            \* per input element, the steps taken for it, in order

vars == << jobs, complete, DebugMode, DownloadThreads, pc, ret, started, waited,
           ppc, pi, cClosed, pool, fs, delivered, closes, log, trace >>

N == Len(jobs)

NoJob == [Label |-> "none"]

\* The worker goroutines run one closure and have no identity: a worker is its
\* local state, pc (where it is), job (its variable job), slot (the input
\* element job was copied from) and defer (its pending deferred closes).
Worker(wpc, job, slot, defer) ==
    [pc |-> wpc, job |-> job, slot |-> slot, defer |-> defer]

At(wpc) == { w \in BagToSet(pool) : w.pc = wpc }

\* Worker w takes a step to local state w2.
Becomes(w, w2) == (pool (-) SetToBag({w})) (+) SetToBag({w2})

\* ---------------------------------------------------------------- helpers
\* Line 144: the empty batch.
NoJobsNever == FALSE

NoJobs == Len(jobs) = 0

\* Line 154: the producer's copy of element i, tagged with its position.
TaggedZeroBased(i) == [jobs[i] EXCEPT !.Index = i - 1]

Tagged(i) == [jobs[i] EXCEPT !.Index = i]

\* Lines 153-154: job is the range variable, a copy of the element; the
\* assignment to job.Index leaves the slice as it is.
SliceTaggedInPlace(i) == [jobs EXCEPT ![i].Index = i]

SliceAfterTag(i) == jobs

\* Lines 153, 157: after handing over element i the producer ranges on, or
\* leaves the loop to close c.
AfterSendEarly(i) == IF i < N - 1 THEN "send" ELSE "close"

AfterSend(i) == IF i < N THEN "send" ELSE "close"

\* Lines 162, 224: with i workers started the engine starts another, or
\* leaves the loop and waits for the completion signals.
AfterStartOneMore(i) == IF i <= DownloadThreads THEN "spawn" ELSE "wait"

AfterStart(i) == IF i < DownloadThreads THEN "spawn" ELSE "wait"

\* Line 224: the wait loop ends once it has received one completion signal per
\* worker.
WaitOverEarly == waited >= DownloadThreads - 1

WaitOverLate == waited > DownloadThreads

WaitOver == waited >= DownloadThreads

\* Line 168: http.Get on the default client has no timeout: a GET that gets no
\* answer does not come back.
HungNever(job) == FALSE

Hung(job) == job.net = "hang"

\* Line 182: os.Create truncates the file it finds, whatever it holds and
\* whoever else has it open.
OpenedWithoutTruncate(content) == IF content = Absent THEN Empty ELSE content

Created(content) == Empty

\* Line 176: the status check.
StatusAny(job) == TRUE

StatusOK(job) == job.net = "200"

\* Lines 199-206: yum.ValidateFileChecksum on the file as it is on disk, and
\* the error the worker stores: nil, the verifier's mismatch value, or any
\* other verifier error wrapped.
ValidateNoCompare(job, content) ==
    IF job.ChecksumType # "sha256" THEN "unsupported" ELSE NoError

Validate(job, content) ==
    IF job.ChecksumType # "sha256" THEN "unsupported"
    ELSE IF Digest(content) # job.Checksum THEN ErrChecksumMismatch
    ELSE NoError

VerifyErrorWrapAll(job, content) ==
    LET err == Validate(job, content) IN
    IF err # NoError THEN "Checksum validation error" ELSE job.Error

VerifyError(job, content) ==
    LET err == Validate(job, content) IN
    IF err = ErrChecksumMismatch THEN err
    ELSE IF err # NoError THEN "Checksum validation error"
    ELSE job.Error

\* Lines 107-116: Dprintf writes only in debug mode.
Dprintf(slot) ==
    IF DebugMode THEN SetToBag({[sev |-> "DEBUG", slot |-> slot, err |-> NoError]})
    ELSE EmptyBag

\* Lines 84-98: Errorf writes one error line, to the log file or to stderr.
Errorf(slot, err) == SetToBag({[sev |-> "ERROR", slot |-> slot, err |-> err]})

\* Lines 211-216: what the worker writes when there is no result channel.
Report(slot, job) == IF job.Error # NoError THEN Errorf(slot, job.Error) ELSE EmptyBag

\* Lines 137-141: the deferred function of Download.
CloseUnlessEmpty == IF complete /\ N # 0 THEN Append(closes, "engine") ELSE closes

DeferredClose == IF complete THEN Append(closes, "engine") ELSE closes

\* Line 228 (and 145): the value Download returns.
ReturnFirstError ==
    IF \E i \in 1..N : \E k \in DOMAIN trace[i] :
          trace[i][k].stage = "fetch" /\ trace[i][k].err # NoError
    THEN "transport" ELSE "nil"

ReturnValue == "nil"

Step(slot, stage, err) ==
    [trace EXCEPT ![slot] = Append(@, [stage |-> stage, err |-> err])]

Steps(slot, stage, err, stage2, err2) ==
    [trace EXCEPT ![slot] = @ \o << [stage |-> stage, err |-> err],
                                    [stage |-> stage2, err |-> err2] >>]

\* ---------------------------------------------------------------- Download
\* The call of Download on a batch of the given ones, with a worker count of
\* the given ones.
InitWith(batches, threads) ==
    /\ jobs \in batches
    /\ complete \in BOOLEAN
    /\ DebugMode \in BOOLEAN
    /\ DownloadThreads \in threads
    /\ pc = "call"
    /\ ret = "none"
    /\ started = 0
    /\ waited = 0
    /\ ppc = "idle"
    /\ pi = 1
    /\ cClosed = FALSE
    /\ pool = EmptyBag
    /\ fs = InitialFiles
    /\ delivered = << >>
    /\ closes = << >>
    /\ log = EmptyBag
    /\ trace = [i \in 1..N |-> << >>]

Init == InitWith(Batches, 1..MaxThreads)

\* Lines 144-146 with the deferred close: no jobs.
ReturnEmpty ==
    /\ pc = "call"
    /\ NoJobs
    /\ pc' = "returned"
    /\ ret' = ReturnValue
    /\ closes' = DeferredClose
    /\ UNCHANGED << jobs, complete, DebugMode, DownloadThreads, started, waited,
                    ppc, pi, cClosed, pool, fs, delivered, log, trace >>

\* Lines 151-158: make c and start the producer.
StartProducer ==
    /\ pc = "call"
    /\ ~NoJobs
    /\ pc' = AfterStart(0)
    /\ ppc' = "send"
    /\ UNCHANGED << jobs, complete, DebugMode, DownloadThreads, ret, started,
                    waited, pi, cClosed, pool, fs, delivered, closes, log,
                    trace >>

\* Lines 162-163, 221: start the next worker.
StartWorker ==
    /\ pc = "spawn"
    /\ started' = started + 1
    /\ pc' = AfterStart(started + 1)
    /\ pool' = pool (+) SetToBag({Worker("recv", NoJob, 0, << >>)})
    /\ UNCHANGED << jobs, complete, DebugMode, DownloadThreads, ret, waited,
                    ppc, pi, cClosed, fs, delivered, closes, log, trace >>

\* Lines 219 and 225: a worker's send on done meets the engine's receive.
Done ==
    /\ pc = "wait"
    /\ ~WaitOver
    /\ \E w \in At("done") : pool' = Becomes(w, [w EXCEPT !.pc = "exit"])
    /\ waited' = waited + 1
    /\ UNCHANGED << jobs, complete, DebugMode, DownloadThreads, pc, ret, started,
                    ppc, pi, cClosed, fs, delivered, closes, log, trace >>

\* Lines 224 (loop exit), 228 and the deferred close.
Return ==
    /\ pc = "wait"
    /\ WaitOver
    /\ pc' = "returned"
    /\ ret' = ReturnValue
    /\ closes' = DeferredClose
    /\ UNCHANGED << jobs, complete, DebugMode, DownloadThreads, started, waited,
                    ppc, pi, cClosed, pool, fs, delivered, log, trace >>

\* ---------------------------------------------------------------- producer
\* Lines 153-155 and 164: the producer's send of element pi meets a worker's
\* receive; c has no buffer.
Handoff ==
    /\ ppc = "send"
    /\ \E w \in At("recv") :
         pool' = Becomes(w, [w EXCEPT !.pc = "fetch", !.job = Tagged(pi), !.slot = pi])
    /\ jobs' = SliceAfterTag(pi)
    /\ trace' = Step(pi, "taken", NoError)
    /\ ppc' = AfterSend(pi)
    /\ pi' = pi + 1
    /\ UNCHANGED << complete, DebugMode, DownloadThreads, pc, ret, started,
                    waited, cClosed, fs, delivered, closes, log >>

\* Line 157.
CloseWork ==
    /\ ppc = "close"
    /\ cClosed' = TRUE
    /\ ppc' = "exited"
    /\ UNCHANGED << jobs, complete, DebugMode, DownloadThreads, pc, ret, started,
                    waited, pi, pool, fs, delivered, closes, log, trace >>

\* ---------------------------------------------------------------- worker
\* The worker's jump to JobDone with job.Error set.
Failed(w, err) == [w EXCEPT !.pc = "jobdone", !.job.Error = err]

\* Line 217: the iteration ends and with it the loop variable job; the
\* worker ranges on.
RetryOnce(w) ==
    IF w.job.Error # NoError /\ Len(trace[w.slot]) < 6
    THEN [w EXCEPT !.pc = "fetch"]
    ELSE [w EXCEPT !.pc = "recv", !.job = NoJob, !.slot = 0]

Ranging(w) == [w EXCEPT !.pc = "recv", !.job = NoJob, !.slot = 0]

\* A deferred close is pushed.
Deferring(w, res) == Append(w.defer, [res |-> res, slot |-> w.slot])

\* Lines 167-179: the debug line, http.Get and the status check.  A transport
\* error goes to JobDone; otherwise the close of the response body is
\* deferred, and any status but 200 goes to JobDone.
Fetch ==
    /\ \E w \in At("fetch") :
         /\ ~Hung(w.job)
         /\ log' = log (+) Dprintf(w.slot)
         /\ IF w.job.net = "fail"
            THEN /\ pool' = Becomes(w, Failed(w, "transport"))
                 /\ trace' = Step(w.slot, "fetch", "transport")
            ELSE LET r == [w EXCEPT !.defer = Deferring(w, "body")] IN
                 IF StatusOK(w.job)
                 THEN /\ pool' = Becomes(w, [r EXCEPT !.pc = "create"])
                      /\ trace' = Steps(w.slot, "fetch", NoError, "status", NoError)
                 ELSE /\ pool' = Becomes(w, Failed(r, "Bad status"))
                      /\ trace' = Steps(w.slot, "fetch", NoError, "status", "Bad status")
    /\ UNCHANGED << jobs, complete, DebugMode, DownloadThreads, pc, ret, started,
                    waited, ppc, pi, cClosed, fs, delivered, closes >>

\* Lines 182-187: os.Create truncates or creates the file; the close of the
\* file is deferred.
Create ==
    /\ \E w \in At("create") :
         IF w.job.disk = "createfail"
         THEN /\ pool' = Becomes(w, Failed(w, "create"))
              /\ trace' = Step(w.slot, "create", "create")
              /\ UNCHANGED fs
         ELSE /\ fs' = [fs EXCEPT ![w.job.Path] = Created(@)]
              /\ pool' = Becomes(w, [w EXCEPT !.pc = "copy",
                                              !.defer = Deferring(w, "file")])
              /\ trace' = Step(w.slot, "create", NoError)
    /\ UNCHANGED << jobs, complete, DebugMode, DownloadThreads, pc, ret, started,
                    waited, ppc, pi, cClosed, delivered, closes, log >>

\* Lines 190-194: io.Copy writes the body from the start of the file; a copy
\* that fails leaves what it had written.
Copy ==
    /\ \E w \in At("copy") :
         IF w.job.disk = "copyfail"
         THEN /\ fs' = [fs EXCEPT ![w.job.Path] = Partial(w.job.Body)]
              /\ pool' = Becomes(w, Failed(w, "copy"))
              /\ trace' = Step(w.slot, "copy", "copy")
         ELSE /\ fs' = [fs EXCEPT ![w.job.Path] = w.job.Body]
              /\ pool' = Becomes(w, [w EXCEPT !.pc = "verify"])
              /\ trace' = Step(w.slot, "copy", NoError)
    /\ UNCHANGED << jobs, complete, DebugMode, DownloadThreads, pc, ret, started,
                    waited, ppc, pi, cClosed, delivered, closes, log >>

\* Lines 199-206: the checksum of the file at job.Path as it is now.
Verify ==
    /\ \E w \in At("verify") :
         /\ pool' = Becomes(w, Failed(w, VerifyError(w.job, fs[w.job.Path])))
         /\ trace' = Step(w.slot, "verify", Validate(w.job, fs[w.job.Path]))
    /\ UNCHANGED << jobs, complete, DebugMode, DownloadThreads, pc, ret, started,
                    waited, ppc, pi, cClosed, fs, delivered, closes, log >>

\* Lines 211-212: the send on complete meets the caller's receive.
Deliver ==
    /\ complete
    /\ \E w \in At("jobdone") :
         /\ delivered' = Append(delivered, [job |-> w.job, slot |-> w.slot,
                                            closed |-> closes # << >>])
         /\ trace' = Step(w.slot, "sent", w.job.Error)
         /\ pool' = Becomes(w, Ranging(w))
    /\ UNCHANGED << jobs, complete, DebugMode, DownloadThreads, pc, ret, started,
                    waited, ppc, pi, cClosed, fs, closes, log >>

\* Lines 214-216: no result channel; a job with an error is logged.
LogOrDrop ==
    /\ ~complete
    /\ \E w \in At("jobdone") :
         /\ log' = log (+) Report(w.slot, w.job)
         /\ trace' = Step(w.slot, "reported", w.job.Error)
         /\ pool' = Becomes(w, Ranging(w))
    /\ UNCHANGED << jobs, complete, DebugMode, DownloadThreads, pc, ret, started,
                    waited, ppc, pi, cClosed, fs, delivered, closes >>

\* Lines 164, 217: the range over c ends once c is closed.
Exhausted ==
    /\ cClosed
    /\ \E w \in At("recv") : pool' = Becomes(w, [w EXCEPT !.pc = "done"])
    /\ UNCHANGED << jobs, complete, DebugMode, DownloadThreads, pc, ret, started,
                    waited, ppc, pi, cClosed, fs, delivered, closes, log, trace >>

\* Line 220: the goroutine's function returns and runs its deferred closes.
Exit ==
    /\ \E w \in At("exit") :
         pool' = Becomes(w, [w EXCEPT !.pc = "exited", !.defer = << >>])
    /\ UNCHANGED << jobs, complete, DebugMode, DownloadThreads, pc, ret, started,
                    waited, ppc, pi, cClosed, fs, delivered, closes, log, trace >>

Next ==
    \/ ReturnEmpty
    \/ StartProducer
    \/ StartWorker
    \/ Done
    \/ Return
    \/ Handoff
    \/ CloseWork
    \/ Fetch
    \/ Create
    \/ Copy
    \/ Verify
    \/ Deliver
    \/ LogOrDrop
    \/ Exhausted
    \/ Exit

Spec == Init /\ [][Next]_vars

\* The scheduler does not stop while a goroutine can take a step: a fetch, a
\* create, a copy and a verification come back, and the caller receives what
\* a worker sends on the result channel.  No step of Download can be taken
\* twice, so this is all the progress of each goroutine needs.
Fairness == WF_vars(Next)

FairSpec == Spec /\ Fairness

\* Download called on a batch that may hold a job whose GET gets no answer.
HangInit == InitWith(HangBatches, 1..MaxThreads)

HangSpec == HangInit /\ [][Next]_vars /\ Fairness

\* Download called with any worker count an int that is not negative can be
\* set to, zero included (a negative count behaves as zero: both loops over
\* DownloadThreads are skipped).
AnyThreadsInit == InitWith(Batches, 0..MaxThreads)

AnyThreadsSpec == AnyThreadsInit /\ [][Next]_vars

\* ---------------------------------------------------------------- properties
Returned == pc = "returned"

Closed == closes # << >>

\* The deliveries of input element i.
Deliveries(i) == { k \in DOMAIN delivered : delivered[k].slot = i }

\* The workers that hold input element i, counted with multiplicity.
Holders(i) == { w \in BagToSet(pool) : w.slot = i }

\* Input element i has been through JobDone: sent to the caller, or logged or
\* dropped when there is no result channel.
Finished(i) ==
    \E k \in DOMAIN trace[i] : trace[i][k].stage \in {"sent", "reported"}

\* Input element i failed at one of the stages of its pipeline.
FailedStage(i) ==
    \E k \in DOMAIN trace[i] :
        trace[i][k].stage \in {"fetch", "status", "create", "copy", "verify"}
        /\ trace[i][k].err # NoError

\* The stages of the pipeline in order, after the job is taken.
Pipeline == << "taken", "fetch", "status", "create", "copy", "verify" >>

\* Input element i passed each of the four stages: its steps begin with the
\* whole pipeline, without an error.
PassedAll(i) ==
    /\ Len(trace[i]) >= Len(Pipeline)
    /\ \A k \in DOMAIN Pipeline :
          trace[i][k].stage = Pipeline[k] /\ trace[i][k].err = NoError

\* Input element i has a step of the given stage.
Has(i, stage) == \E k \in DOMAIN trace[i] : trace[i][k].stage = stage

\* C1: with a result channel and a non-empty batch of N jobs, once the channel
\* is closed exactly N deliveries have occurred, all of them before the close,
\* and the positions delivered are pairwise distinct and are exactly 1..N.
C1_DeliversAll ==
    /\ Len(delivered) <= N
    /\ \A k, l \in DOMAIN delivered :
          delivered[k].job.Index = delivered[l].job.Index => k = l
    /\ (complete /\ N > 0 /\ Closed) =>
          /\ Len(delivered) = N
          /\ { delivered[k].job.Index : k \in DOMAIN delivered } = 1..N
          /\ \A k \in DOMAIN delivered : ~delivered[k].closed

C1_Witness ==
    /\ complete /\ N >= 2 /\ Closed
    /\ Len(delivered) = N
    /\ delivered[1].job.Index = 2

\* C2: a supplied result channel is closed exactly once on every path, empty
\* or not, whatever jobs succeed or fail, and only by Download itself, when
\* it returns; with no channel nothing is closed.
C2_ClosedOnce ==
    /\ Len(closes) <= 1
    /\ \A k \in DOMAIN closes : closes[k] = "engine"
    /\ Closed => Returned
    /\ Returned => (Closed <=> complete)

C2_Witness ==
    /\ Returned /\ complete /\ Len(closes) = 1
    /\ \E i, j \in 1..N : FailedStage(i) /\ PassedAll(j)

\* C3: with an empty job list Download returns with the channel, if any,
\* closed and nothing delivered, and neither the producer nor a worker is
\* ever started.
C3_EmptyBatch ==
    N = 0 =>
        /\ delivered = << >>
        /\ ppc = "idle"
        /\ started = 0 /\ pool = EmptyBag
        /\ pc \in {"call", "returned"}
        /\ Returned => (ret = "nil" /\ (complete => Len(closes) = 1))

C3_Witness == N = 0 /\ Returned /\ complete /\ closes = << "engine" >> /\ delivered = << >>

\* The steps of input element i are steps of the pipeline, each at its place,
\* with at most one pass through JobDone, which is the last step.
OncePerStage(i) ==
    \A k \in DOMAIN trace[i] :
        \/ k <= Len(Pipeline) /\ trace[i][k].stage = Pipeline[k]
        \/ k > 2 /\ k = Len(trace[i]) /\ trace[i][k].stage \in {"sent", "reported"}

\* C4: every job is taken off the work channel once, by one worker, goes
\* through the pipeline once and through JobDone once, and is delivered once
\* when there is a result channel; when Download has returned each of these
\* has happened exactly once for every job.
C4_ExactlyOnce ==
    /\ \A i \in 1..N :
          /\ OncePerStage(i)
          /\ Cardinality(Deliveries(i)) = IF Has(i, "sent") THEN 1 ELSE 0
          /\ Returned => (Finished(i) /\ (complete => Has(i, "sent")))
    /\ \A w \in BagToSet(pool) :
          w.slot # 0 =>
              /\ CopiesIn(w, pool) = 1
              /\ Holders(w.slot) = {w}
              /\ ~Finished(w.slot)

C4_Witness ==
    /\ Returned /\ N >= 2 /\ DownloadThreads >= 2 /\ complete
    /\ \A i \in 1..N : Cardinality(Deliveries(i)) = 1
    /\ \E w1, w2 \in BagToSet(pool) :
          w1 # w2 /\ w1.defer # << >> /\ w2.defer # << >>

\* C5: Download returns nil on every path, however many jobs fail and at
\* whatever stage; a failure does not stop the batch: when Download returns
\* every job has been through JobDone, and a failed job shows its error in
\* the delivered job or, with no channel, in an error line.
C5_ReturnsNil ==
    /\ ~Returned => ret = "none"
    /\ Returned =>
          /\ ret = "nil"
          /\ \A i \in 1..N : Finished(i)
          /\ \A i \in 1..N : FailedStage(i) =>
                IF complete
                THEN \E k \in Deliveries(i) : delivered[k].job.Error # NoError
                ELSE \E l \in BagToSet(log) : l.sev = "ERROR" /\ l.slot = i

C5_Witness ==
    /\ Returned /\ ret = "nil" /\ N >= 2
    /\ \A i \in 1..N : FailedStage(i)
    /\ \E i, j \in 1..N : trace[i] # trace[j]
\* The error input element i went through JobDone with.
FinalErrors(i) ==
    { trace[i][k].err : k \in { l \in DOMAIN trace[i] :
                                  trace[i][l].stage \in {"sent", "reported"} } }

\* No other element of the batch has the destination path of element i.
SolePath(i) == \A j \in 1..N : j # i => jobs[j].Path # jobs[i].Path

\* C6: a job that passes fetch, status check, persist and verify is delivered
\* with Error = nil and Index = its place in the input list, whatever Index
\* and Error the caller had set.
C6_SuccessIsClean ==
    \A k \in DOMAIN delivered :
        PassedAll(delivered[k].slot) =>
            /\ delivered[k].job.Error = NoError
            /\ delivered[k].job.Index = delivered[k].slot

\* What the pipeline makes of a job processed on its own: the error of its
\* first failing stage, or the Error it came with.
Outcome(j) ==
    IF j.net = "fail" THEN "transport"
    ELSE IF j.net # "200" THEN "Bad status"
    ELSE IF j.disk = "createfail" THEN "create"
    ELSE IF j.disk = "copyfail" THEN "copy"
    ELSE IF j.ChecksumType # "sha256" THEN "Checksum validation error"
    ELSE IF Digest(j.Body) # j.Checksum THEN ErrChecksumMismatch
    ELSE j.Error

SameOutcomes ==
    /\ \A i \in 1..N : FinalErrors(i) \subseteq {Outcome(jobs[i])}
    /\ (Returned /\ complete) => Len(delivered) = N
    /\ Returned => \A i \in 1..N : FinalErrors(i) # {}

\* C7 as claimed: for a fixed batch with fixed fetch results, the number of
\* deliveries and the outcome of each job are the same for every worker count
\* and every interleaving.
C7_AsClaimed == SameOutcomes

\* C7: for a fixed batch with fixed fetch results whose jobs have pairwise
\* distinct destination paths, the number of deliveries and the outcome of
\* each job are the same for every worker count and every interleaving, and
\* are those of a single worker, under which they hold for every batch.
C7_Deterministic ==
    (DownloadThreads = 1 \/ \A i \in 1..N : SolePath(i)) => SameOutcomes

C7_Witness ==
    /\ Returned /\ complete /\ DownloadThreads = 2 /\ N = 2
    /\ \A i \in 1..N : SolePath(i)
    /\ delivered[1].slot = 2
    /\ delivered[1].job.Error # NoError /\ delivered[2].job.Error = NoError

\* The lines other than debug lines that the log holds for input element i.
Reports(i) ==
    LET lines == { l \in BagToSet(log) : l.sev # "DEBUG" /\ l.slot = i }
    IN  BagCardinality([l \in lines |-> CopiesIn(l, log)])

\* C8: with no result channel, when Download has returned the log holds one
\* error line for each job that failed and no line, the debug lines of the
\* fetch aside, for a job that succeeded.
C8_OneLinePerFailure ==
    (~complete /\ Returned) =>
        \A i \in 1..N : Reports(i) = IF FailedStage(i) THEN 1 ELSE 0

\* C9: a job whose fetch returns a status other than 200 is delivered with
\* the bad-status error and never enters persist or verify: it neither
\* creates nor truncates nor writes its destination, which keeps the content
\* it had unless another job of the batch writes it.
C9_BadStatusSkipsPersist ==
    \A i \in 1..N :
        (jobs[i].net = "404" /\ Has(i, "fetch")) =>
            /\ ~Has(i, "create") /\ ~Has(i, "copy") /\ ~Has(i, "verify")
            /\ FinalErrors(i) \subseteq {"Bad status"}
            /\ \A k \in Deliveries(i) : delivered[k].job.Error = "Bad status"
            /\ (\A j \in 1..N : jobs[j].Path = jobs[i].Path => ~Has(j, "create"))
                  => fs[jobs[i].Path] = InitialFiles[jobs[i].Path]

C9_Witness ==
    /\ Returned /\ N >= 2
    /\ \E k \in DOMAIN delivered :
          /\ jobs[delivered[k].slot].net = "404"
          /\ delivered[k].job.Error = "Bad status"
          /\ fs[delivered[k].job.Path] = Old
    /\ \E i \in 1..N : PassedAll(i)

\* Input element i was copied to its destination in full and its content
\* does not have the digest the job declares.
WrongContent(i) ==
    /\ \E k \in DOMAIN trace[i] : trace[i][k].stage = "copy" /\ trace[i][k].err = NoError
    /\ jobs[i].ChecksumType = "sha256"
    /\ Digest(jobs[i].Body) # jobs[i].Checksum

\* C10 as claimed: a job copied in full whose content does not match its
\* checksum is delivered with the verifier's mismatch error, and its content
\* is still at its destination after the delivery.
C10_AsClaimed ==
    \A k \in DOMAIN delivered :
        WrongContent(delivered[k].slot) =>
            /\ delivered[k].job.Error = ErrChecksumMismatch
            /\ fs[delivered[k].job.Path] = delivered[k].job.Body

\* C10: a job copied in full whose content does not match its checksum, and
\* whose destination no other job of the batch has, is delivered with the
\* verifier's mismatch error, not the wrapped one, and its content is still
\* at its destination after the delivery; with or without another job on the
\* destination, no file is removed.
C10_MismatchKept ==
    /\ \A k \in DOMAIN delivered :
          (WrongContent(delivered[k].slot) /\ SolePath(delivered[k].slot)) =>
              /\ delivered[k].job.Error = ErrChecksumMismatch
              /\ fs[delivered[k].job.Path] = delivered[k].job.Body
    /\ \A i \in 1..N : Has(i, "copy") => fs[jobs[i].Path] # Absent
    /\ \A p \in Paths : InitialFiles[p] # Absent => fs[p] # Absent

C10_Witness ==
    /\ Returned /\ N >= 2
    /\ \E k \in DOMAIN delivered :
          /\ WrongContent(delivered[k].slot) /\ SolePath(delivered[k].slot)
          /\ delivered[k].job.Error = ErrChecksumMismatch
          /\ fs[delivered[k].job.Path] = 1

\* The error JobDone shows for a failure of a stage: the verifier's errors other
\* than the mismatch are shown wrapped, every other error as it is.
Classified(err) ==
    IF err \in {NoError, ErrChecksumMismatch, "transport", "Bad status", "create", "copy"}
    THEN err ELSE "Checksum validation error"

\* The steps of input element i at which a stage failed.
Failures(i) == { k \in DOMAIN trace[i] : trace[i][k].err # NoError
                                          /\ trace[i][k].stage \in
                                               {"fetch", "status", "create", "copy", "verify"} }

\* C11: the steps of a job are the stages in order, each at most once; a
\* failing stage is followed by JobDone and by no other stage; when Download
\* has returned every job has been through JobDone; and the error a job goes
\* through JobDone with is that of its failing stage, or nil when no stage
\* failed.
C11_FirstErrorWins ==
    \A i \in 1..N :
        /\ OncePerStage(i)
        /\ \A k \in Failures(i) :
              k + 1 \in DOMAIN trace[i] => trace[i][k + 1].stage \in {"sent", "reported"}
        /\ Returned => Finished(i)
        /\ \A e \in FinalErrors(i) :
              IF Failures(i) = {} THEN e = NoError
              ELSE \E k \in Failures(i) : e = Classified(trace[i][k].err)
        /\ \A k \in Deliveries(i) : delivered[k].job.Error \in FinalErrors(i)

\* C12: Download has not returned and the result channel is not closed until
\* every worker it started has signalled completion; every delivery was made
\* before the close, and once the channel is closed no worker is at a place
\* from which it can still send on it.
C12_CloseAfterWorkers ==
    /\ ((Returned \/ Closed) /\ N > 0) =>
          /\ started = DownloadThreads
          /\ waited = DownloadThreads
          /\ BagCardinality(pool) = DownloadThreads
          /\ \A w \in BagToSet(pool) : w.pc \in {"exit", "exited"}
    /\ \A k \in DOMAIN delivered : ~delivered[k].closed

C12_Witness ==
    /\ Returned /\ Closed /\ DownloadThreads = 2 /\ waited = 2
    /\ Len(delivered) = 2
    /\ \E w \in BagToSet(pool) : w.pc = "exit"

\* C13: the response body and the file opened for a job are closed by the end
\* of that job's processing: a worker has open only what it opened for the job
\* it is processing, so nothing when it takes its next job, and no worker has
\* anything open when Download has returned.
C13_ClosedPerJob ==
    /\ \A w \in BagToSet(pool) :
          \A k \in DOMAIN w.defer : w.defer[k].slot = w.slot
    /\ Returned => \A w \in BagToSet(pool) : w.defer = << >>

\* Input element i has been taken off the work channel.
Taken(i) == Has(i, "taken")

\* C14: the producer hands over the elements in list order, one at a time and
\* each once, tagged with its place: the elements taken so far are exactly
\* those before the producer's place in the list, so element i is taken before
\* element i + 1 is; the job a worker holds is the element of that place with
\* Index set to the place; and the work channel is closed only when every
\* element has been taken.
C14_InOrder ==
    /\ pi \in 1..(N + 1)
    /\ \A i \in 1..N : Taken(i) <=> i < pi
    /\ \A i \in 1..(N - 1) : Taken(i + 1) => Taken(i)
    /\ \A i \in 1..N : \A k \in DOMAIN trace[i] : trace[i][k].stage = "taken" => k = 1
    /\ \A w \in BagToSet(pool) :
          w.slot # 0 => /\ Taken(w.slot)
                        /\ w.job.Index = w.slot
                        /\ w.job.Label = jobs[w.slot].Label
    /\ (cClosed \/ ppc \in {"close", "exited"}) => \A i \in 1..N : Taken(i)
    /\ cClosed <=> ppc = "exited"

C14_Witness ==
    /\ cClosed /\ N = 2 /\ Taken(1) /\ Taken(2)
    /\ jobs[2].Index = 7
    /\ \E w \in BagToSet(pool) : w.slot = 2 /\ w.job.Index = 2 /\ w.pc = "fetch"

\* The input elements taken off the work channel and not yet through JobDone.
InFlight == { i \in 1..N : Taken(i) /\ ~Finished(i) }

\* C15: the jobs taken and not yet handed to the caller (or logged or dropped)
\* are at most DownloadThreads; each of them is held by one worker, a worker
\* holds at most one, and a worker ready to take a job holds none.
C15_BoundedInFlight ==
    /\ Cardinality(InFlight) <= DownloadThreads
    /\ BagCardinality(pool) <= DownloadThreads
    /\ \A i \in InFlight :
          \E w \in Holders(i) : Holders(i) = {w} /\ CopiesIn(w, pool) = 1
    /\ \A w \in BagToSet(pool) :
          /\ w.pc = "recv" => w.slot = 0
          /\ w.slot # 0 => w.slot \in InFlight

C15_Witness ==
    /\ complete /\ DownloadThreads = 2 /\ InFlight = {1, 2}
    /\ \A w \in BagToSet(pool) : w.pc = "jobdone"

\* Every goroutine Download started has run to its end.
AllExited ==
    /\ ppc = "exited" /\ cClosed
    /\ waited = DownloadThreads
    /\ BagCardinality(pool) = DownloadThreads
    /\ \A w \in BagToSet(pool) : w.pc = "exited"

\* C16: under fair scheduling, with every stage of every job coming back and
\* the caller receiving, Download eventually returns, and for a non-empty
\* batch the producer has then handed over every job and closed the work
\* channel, every worker has seen it exhausted, signalled and ended, and the
\* engine has received every signal.
C16_Terminates ==
    <>[](/\ Returned /\ ret = "nil"
         /\ \A i \in 1..N : Finished(i)
         /\ N > 0 => AllExited)

C16_Witness ==
    /\ Returned /\ N = 2 /\ DownloadThreads = 2 /\ AllExited
    /\ \A i \in 1..N : Finished(i)

\* The input elements whose GET gets no answer.
HungJobs == { i \in 1..N : jobs[i].net = "hang" }

\* C17: with a job whose fetch never comes back, Download never returns and
\* never closes the result channel, and the engine never has all completion
\* signals; the worker that took the job stays in its fetch for ever; and
\* with a second worker every other job is taken, processed and through
\* JobDone.
C17_HungFetch ==
    /\ [](HungJobs # {} => /\ ~Returned /\ ~Closed /\ ret = "none"
                           /\ waited < DownloadThreads
                           /\ \A i \in HungJobs : ~Has(i, "fetch") /\ ~Finished(i))
    /\ (HungJobs # {}) ~> [](\E w \in BagToSet(pool) : w.pc = "fetch" /\ w.slot \in HungJobs)
    /\ (HungJobs # {} /\ DownloadThreads >= 2)
          ~> [](\A i \in 1..N : i \in HungJobs \/ (Finished(i) /\ (complete => Has(i, "sent"))))

C17_Witness ==
    /\ N = 2 /\ DownloadThreads = 2 /\ complete /\ HungJobs = {1}
    /\ \E w \in BagToSet(pool) : w.pc = "fetch" /\ w.slot = 1
    /\ Len(delivered) = 1 /\ delivered[1].slot = 2
    /\ waited = 1 /\ pc = "wait"

\* What the last step of input element i left at its destination, when that
\* step wrote: a create the empty file, a copy the body, a failed copy a part
\* of it.
Wrote(steps, job) ==
    LET last == steps[Len(steps)] IN
    IF last.stage = "create" /\ last.err = NoError THEN {Empty}
    ELSE IF last.stage = "copy" /\ last.err = NoError THEN {job.Body}
    ELSE IF last.stage = "copy" THEN {Partial(job.Body)}
    ELSE {}

\* What input element i has at its destination by its own writes so far.
Written(i) ==
    IF \E k \in DOMAIN trace[i] : trace[i][k].stage = "copy" /\ trace[i][k].err = NoError
    THEN {jobs[i].Body}
    ELSE IF Has(i, "copy") THEN {Partial(jobs[i].Body)}
    ELSE IF \E k \in DOMAIN trace[i] : trace[i][k].stage = "create" /\ trace[i][k].err = NoError
    THEN {Empty}
    ELSE {}

\* The errors a job can go through JobDone with: its own, or that of one of
\* its stages.  None of them stands for a conflict on the destination.
StageErrors ==
    {"transport", "Bad status", "create", "copy", ErrChecksumMismatch,
     "Checksum validation error"}

C19_NoneBlocked ==
    (Returned /\ N > 0) =>
        /\ ppc = "exited" /\ cClosed
        /\ \A i \in 1..N : Taken(i)
        /\ \A w \in BagToSet(pool) : w.pc \in {"exit", "exited"}

\* C20: no step of Download changes the caller's job list: Index and Error
\* are set on the copies that travel through the work channel, so the list
\* has at every moment, and after the return, the values it had at the call.
C20_InputUntouched == [][jobs' = jobs]_vars

C20_Witness ==
    /\ Returned /\ N = 2
    /\ \E k \in DOMAIN delivered :
          /\ delivered[k].job.Index # jobs[delivered[k].slot].Index
          /\ delivered[k].job.Error # jobs[delivered[k].slot].Error
          /\ jobs[delivered[k].slot].Error = NoError
    /\ \E i \in 1..N : jobs[i].Index = 7 /\ jobs[i].Error = "stale"
====
